---- MODULE Spec2Model ----
(***************************************************************************)
(* Model of the Mi Smart Cube decoder: CubeModel.hpp (the cubie model, the *)
(* 36-nibble protocol decoder, the colour resolver and the face projector) *)
(* and the BLE data-notification callback of main.cpp that feeds it.       *)
(***************************************************************************)
EXTENDS Integers, Sequences, FiniteSets, TLC

(* ---------------- enumerations (CubeModel.hpp 81-86) ------------------- *)
\* enum class FACE
UP == 0
LEFT == 1
FRONT == 2
RIGHT == 3
BACK == 4
DOWN == 5
NONE == 6
\* enum class COLOR
BLUE == 0
YELLOW == 1
ORANGE == 2
WHITE == 3
RED == 4
GREEN == 5
\* enum class EDGE
UB == 0
UL == 1
UF == 2
UR == 3
BL == 4
FL == 5
FR == 6
_BR == 7
DB == 8
DL == 9
DF == 10
DR == 11
\* enum class CORNER
ULB == 0
ULF == 1
URF == 2
URB == 3
DLB == 4
DLF == 5
DRF == 6
DRB == 7
\* enum class DIR
ORIENTED == 3
FLIPPED == 4
ROTATED == 2
ROTATED_TWICE == 1

\* array<Cubie, 12> edges; array<Cubie, 8> corners; array<COLOR, 6> centers
NumEdges == 12
NumCorners == 8
NumCenters == 6
EdgeSlots == 0 .. (NumEdges - 1)
CornerSlots == 0 .. (NumCorners - 1)
Faces == 0 .. (NumCenters - 1)
Colors == {BLUE, YELLOW, ORANGE, WHITE, RED, GREEN}

\* uint8_t arithmetic
U8(x) == x % 256

(* ---------------- bounds of the model ---------------------------------- *)
\* The longest run of notifications delivered in a row.
MaxFrames == 3
\* An uninitialised COLOR byte is drawn from 0..MaxJunk (6 is no COLOR).
MaxJunk == 6
JunkBytes == 0 .. MaxJunk

(* ---------------- constructors ------------------------------------------ *)
\* the six fixed centre colours, indexed by FACE
SolvedCenters ==
    [f \in Faces |-> CASE f = UP -> GREEN
                       [] f = LEFT -> RED
                       [] f = FRONT -> WHITE
                       [] f = RIGHT -> ORANGE
                       [] f = BACK -> YELLOW
                       [] OTHER -> BLUE]

\* mutant: the default constructor storing 1-based indices
CubeModel_OneBased ==
    [edges |-> [i \in EdgeSlots |-> [index |-> i + 1, orientation |-> ORIENTED]],
     corners |-> [i \in CornerSlots |-> [index |-> i + 1, orientation |-> ORIENTED]],
     centers |-> SolvedCenters,
     lastTurnedFace |-> NONE,
     lastTurnedDir |-> 0,
     turnedFace |-> NONE,
     turnedDir |-> 0]

\* CubeModel::CubeModel()
CubeModel ==
    [edges |-> [i \in EdgeSlots |-> [index |-> i, orientation |-> ORIENTED]],
     corners |-> [i \in CornerSlots |-> [index |-> i, orientation |-> ORIENTED]],
     centers |-> SolvedCenters,
     lastTurnedFace |-> NONE,
     lastTurnedDir |-> 0,
     turnedFace |-> NONE,
     turnedDir |-> 0]

\* mutant: the first pattern compared without its middle byte
BackFlipPattern_NoMiddle(data) ==
    \/ (data[28] = 8 /\ data[30] = 8)
    \/ (data[28] = 10 /\ data[29] = 15 /\ data[30] = 10)

\* the two conditions on data[28..30] of the constructor
BackFlipPattern(data) ==
    \/ (data[28] = 8 /\ data[29] = 9 /\ data[30] = 8)
    \/ (data[28] = 10 /\ data[29] = 15 /\ data[30] = 10)

FrontFlipPattern(data) ==
    \/ (data[28] = 2 /\ data[29] = 6 /\ data[30] = 2)
    \/ (data[28] = 10 /\ data[29] = 15 /\ data[30] = 10)

\* mutant: EDGE::UL flipped in place of EDGE::UB
DecodeEdgeOrientation_WrongSlot(data, i) ==
    IF BackFlipPattern(data) /\ i \in {UL, BL, _BR, DB} THEN FLIPPED
    ELSE IF FrontFlipPattern(data) /\ i \in {UF, FL, FR, DF} THEN FLIPPED
    ELSE ORIENTED

\* the orientation the constructor leaves in edge slot i
DecodeEdgeOrientation(data, i) ==
    IF BackFlipPattern(data) /\ i \in {UB, BL, _BR, DB} THEN FLIPPED
    ELSE IF FrontFlipPattern(data) /\ i \in {UF, FL, FR, DF} THEN FLIPPED
    ELSE ORIENTED

\* mutant: the 1-based corner identity stored as it is
DecodeCorner_OneBased(data, i) ==
    [index |-> data[i], orientation |-> data[i + 8]]

\* this->corners[i] of the constructor
DecodeCorner(data, i) ==
    [index |-> U8(data[i] - 1), orientation |-> data[i + 8]]

\* this->edges[i] of the constructor
DecodeEdge(data, i) ==
    [index |-> U8(data[i + 16] - 1), orientation |-> DecodeEdgeOrientation(data, i)]

\* (FACE)data[32], (FACE)data[34]: the raw byte becomes the enum value
DecodeFace(b) == b

\* mutant: the direction compared with 3, the header's clockwise index
DecodeDir_Three(b) == IF b = 3 THEN 0 ELSE 1

\* data[33] == 1 ? 0 : 1
DecodeDir(b) == IF b = 1 THEN 0 ELSE 1

\* CubeModel::CubeModel(const uint8_t *data)
CubeModelData(data) ==
    [edges |-> [i \in EdgeSlots |-> DecodeEdge(data, i)],
     corners |-> [i \in CornerSlots |-> DecodeCorner(data, i)],
     centers |-> SolvedCenters,
     lastTurnedFace |-> DecodeFace(data[34]),
     lastTurnedDir |-> DecodeDir(data[35]),
     turnedFace |-> DecodeFace(data[32]),
     turnedDir |-> DecodeDir(data[33])]

(* ---------------- queries ------------------------------------------------ *)
\* mutant: isSolved() comparing all 8 corner slots
isSolved_AllCorners(cube) ==
    \A i \in EdgeSlots :
        /\ cube.edges[i].index = i
        /\ cube.edges[i].orientation = ORIENTED
        /\ (i < NumCorners =>
               /\ cube.corners[i].index = i
               /\ cube.corners[i].orientation = ORIENTED)

\* CubeModel::isSolved(): the loop stops at the first mismatch; corners are
\* compared only while i < 6.
SolvedCornerCount == 6
isSolved(cube) ==
    \A i \in EdgeSlots :
        /\ cube.edges[i].index = i
        /\ cube.edges[i].orientation = ORIENTED
        /\ (i < SolvedCornerCount =>
               /\ cube.corners[i].index = i
               /\ cube.corners[i].orientation = ORIENTED)

\* the switch of getEdgeColors: result[0], result[1] of each case
EdgeCase(index) ==
    CASE index = UB -> <<GREEN, YELLOW>>
      [] index = UL -> <<GREEN, RED>>
      [] index = UF -> <<GREEN, WHITE>>
      [] index = UR -> <<GREEN, ORANGE>>
      [] index = BL -> <<YELLOW, RED>>
      [] index = FL -> <<WHITE, RED>>
      [] index = FR -> <<WHITE, ORANGE>>
      [] index = _BR -> <<YELLOW, ORANGE>>
      [] index = DB -> <<BLUE, YELLOW>>
      [] index = DL -> <<BLUE, RED>>
      [] index = DF -> <<BLUE, WHITE>>
      [] index = DR -> <<BLUE, ORANGE>>

\* mutant: the colours looked up by the slot, not by the piece it holds
getEdgeColors_BySlot(cube, edge, junk) ==
    LET edge_cubie == cube.edges[edge]
        result == [k \in 0 .. 1 |-> EdgeCase(edge)[k + 1]]
    IN IF edge_cubie.orientation = FLIPPED
       THEN [k \in 0 .. 1 |-> result[1 - k]]
       ELSE result

\* CubeModel::getEdgeColors(edge).  junk is the content of the uninitialised
\* local `result`; no case of the switch writes it when index is not an EDGE.
getEdgeColors(cube, edge, junk) ==
    LET edge_cubie == cube.edges[edge]
        result == IF edge_cubie.index \in EdgeSlots
                  THEN [k \in 0 .. 1 |-> EdgeCase(edge_cubie.index)[k + 1]]
                  ELSE [k \in 0 .. 1 |-> junk[k]]
    IN IF edge_cubie.orientation = FLIPPED
       THEN [k \in 0 .. 1 |-> result[1 - k]]
       ELSE result

\* the switch of getCornerColors: the colours written to i0, i1, i2
CornerCase(index) ==
    CASE index = ULB -> <<GREEN, RED, YELLOW>>
      [] index = ULF -> <<GREEN, RED, WHITE>>
      [] index = URF -> <<GREEN, ORANGE, WHITE>>
      [] index = URB -> <<GREEN, ORANGE, YELLOW>>
      [] index = DLB -> <<BLUE, RED, YELLOW>>
      [] index = DLF -> <<BLUE, RED, WHITE>>
      [] index = DRF -> <<BLUE, ORANGE, WHITE>>
      [] index = DRB -> <<BLUE, ORANGE, YELLOW>>

\* <<i0, i1, i2>> of getCornerColors after the orientation branch
CornerIndices(cube, corner) ==
    LET corner_cubie == cube.corners[corner]
        odd == (corner_cubie.index + corner) % 2 = 1
    IN IF corner_cubie.orientation = ORIENTED
       THEN (IF odd THEN <<0, 2, 1>> ELSE <<0, 1, 2>>)
       ELSE IF corner_cubie.orientation = ROTATED
       THEN (IF odd THEN <<1, 0, 2>> ELSE <<2, 0, 1>>)
       ELSE (IF odd THEN <<2, 1, 0>>
             ELSE IF ~isSolved(cube) THEN <<2, 1, 0>>
             ELSE <<1, 2, 0>>)

\* CubeModel::getCornerColors(corner), in the order Z Y X
getCornerColors(cube, corner, junk) ==
    LET corner_cubie == cube.corners[corner]
        ix == CornerIndices(cube, corner)
    IN IF corner_cubie.index \in CornerSlots
       THEN [k \in 0 .. 2 |->
                LET c == CornerCase(corner_cubie.index)
                IN CASE k = ix[1] -> c[1]
                     [] k = ix[2] -> c[2]
                     [] OTHER -> c[3]]
       ELSE [k \in 0 .. 2 |-> junk[k]]

\* a cell of getColor that reads getCornerColors(slot)[k] / getEdgeColors(slot)[k]
CornerCell(slot, k) == [kind |-> "corner", slot |-> slot, k |-> k]
EdgeCell(slot, k) == [kind |-> "edge", slot |-> slot, k |-> k]

\* the if/else ladder of one face of getColor: r0 = <<col 0, col 1, else>>,
\* r1 = <<col 0, else>>, r2 = <<col 0, col 1, else>>
Ladder(r0, r1, r2, row, col) ==
    IF row = 0 THEN (IF col = 0 THEN r0[1] ELSE IF col = 1 THEN r0[2] ELSE r0[3])
    ELSE IF row = 1 THEN (IF col = 0 THEN r1[1] ELSE r1[2])
    ELSE (IF col = 0 THEN r2[1] ELSE IF col = 1 THEN r2[2] ELSE r2[3])

\* the switch(face) of getColor: which getter and which colour index the
\* non-centre cell (row, col) of a face returns
CellRef(face, row, col) ==
    CASE face = UP ->
           Ladder(<<CornerCell(ULB, 0), EdgeCell(UB, 0), CornerCell(URB, 0)>>,
                  <<EdgeCell(UL, 0), EdgeCell(UR, 0)>>,
                  <<CornerCell(ULF, 0), EdgeCell(UF, 0), CornerCell(URF, 0)>>, row, col)
      [] face = LEFT ->
           Ladder(<<CornerCell(ULB, 1), EdgeCell(UL, 1), CornerCell(ULF, 1)>>,
                  <<EdgeCell(BL, 1), EdgeCell(FL, 1)>>,
                  <<CornerCell(DLB, 1), EdgeCell(DL, 1), CornerCell(DLF, 1)>>, row, col)
      [] face = FRONT ->
           Ladder(<<CornerCell(ULF, 2), EdgeCell(UF, 1), CornerCell(URF, 2)>>,
                  <<EdgeCell(FL, 0), EdgeCell(FR, 0)>>,
                  <<CornerCell(DLF, 2), EdgeCell(DF, 1), CornerCell(DRF, 2)>>, row, col)
      [] face = RIGHT ->
           Ladder(<<CornerCell(URF, 1), EdgeCell(UR, 1), CornerCell(URF, 1)>>,
                  <<EdgeCell(FR, 1), EdgeCell(_BR, 1)>>,
                  <<CornerCell(DRF, 1), EdgeCell(DR, 1), CornerCell(DRB, 1)>>, row, col)
      [] face = BACK ->
           Ladder(<<CornerCell(URB, 2), EdgeCell(UB, 1), CornerCell(ULB, 2)>>,
                  <<EdgeCell(_BR, 0), EdgeCell(BL, 0)>>,
                  <<CornerCell(DRB, 2), EdgeCell(DB, 1), CornerCell(DLB, 2)>>, row, col)
      [] face = DOWN ->
           Ladder(<<CornerCell(DLF, 0), EdgeCell(DF, 0), CornerCell(DRF, 0)>>,
                  <<EdgeCell(DL, 0), EdgeCell(DR, 0)>>,
                  <<CornerCell(DLB, 0), EdgeCell(DB, 0), CornerCell(DRB, 0)>>, row, col)

\* CubeModel::getColor(face, row, col).  One getter call is made per cell;
\* junk is the uninitialised `result` of that call (centers[NONE] lies past
\* the end of the array: it reads a junk byte too).
getColor(cube, face, row, col, junk) ==
    IF row = 1 /\ col = 1
    THEN (IF face \in Faces THEN cube.centers[face] ELSE junk[0])
    ELSE IF face \notin Faces THEN WHITE
    ELSE LET ref == CellRef(face, row, col)
         IN IF ref.kind = "corner"
            THEN getCornerColors(cube, ref.slot, junk)[ref.k]
            ELSE getEdgeColors(cube, ref.slot, junk)[ref.k]

Rows == 0 .. 2
Cols == 0 .. 2
Cells == Rows \X Cols

\* CubeModel::getFaceColors(face): junk[<<row, col>>] is the uninitialised
\* `result` of the getter call made for that cell
getFaceColors(cube, face, junk) ==
    [cell \in Cells |-> getColor(cube, face, cell[1], cell[2], junk[cell])]

\* mutant: operator== comparing corners while i < 6, as isSolved() does
CubeEquals_SixCorners(a, b) ==
    \A i \in EdgeSlots :
        /\ a.edges[i].index = b.edges[i].index
        /\ a.edges[i].orientation = b.edges[i].orientation
        /\ (i < SolvedCornerCount =>
               /\ a.corners[i].index = b.corners[i].index
               /\ a.corners[i].orientation = b.corners[i].orientation)
        /\ (i < NumCenters => a.centers[i] = b.centers[i])

\* CubeModel::operator==
CubeEquals(a, b) ==
    \A i \in EdgeSlots :
        /\ a.edges[i].index = b.edges[i].index
        /\ a.edges[i].orientation = b.edges[i].orientation
        /\ (i < NumCorners =>
               /\ a.corners[i].index = b.corners[i].index
               /\ a.corners[i].orientation = b.corners[i].orientation)
        /\ (i < NumCenters => a.centers[i] = b.centers[i])

\* CubeModel::operator!=
CubeNotEquals(a, b) == ~CubeEquals(a, b)

(* ---------------- main.cpp ------------------------------------------------ *)
\* const static int AES_KEY[36]
AES_KEY ==
    <<176, 81, 104, 224, 86, 137, 237, 119, 38, 26, 193, 161, 210, 126, 150,
      81, 93, 13, 236, 249, 89, 235, 88, 24, 113, 81, 214, 131, 130, 199, 2,
      169, 39, 165, 171, 41>>

\* AES_KEY[i], 0-indexed
Key(i) == AES_KEY[i + 1]

\* getHalfByte(pData, i): the i-th half byte of pData
getHalfByte(pData, i) ==
    IF i % 2 = 1 THEN pData[i \div 2] % 16 ELSE pData[i \div 2] \div 16

PayloadLen == 20
FrameLen == 36
EncryptedMark == 167

\* the "Decrypt AES" loop of onDataNotifyCallback
Decrypt(pData) ==
    LET offset1 == getHalfByte(pData, 38)
        offset2 == getHalfByte(pData, 39)
    IN [i \in 0 .. (PayloadLen - 1) |->
           U8(pData[i] + Key(offset1 + i) + Key(offset2 + i))]

\* colorData of onDataNotifyCallback
ColorData(pData) ==
    LET plain == IF pData[18] = EncryptedMark THEN Decrypt(pData) ELSE pData
    IN [i \in 0 .. (FrameLen - 1) |-> getHalfByte(plain, i)]

(* ---------------- frames the cube may send ------------------------------ *)
\* "Solved cube cubeData example" of the header comment, as 36 half bytes
SolvedData ==
    [i \in 0 .. (FrameLen - 1) |->
        IF i < 8 THEN i + 1
        ELSE IF i < 16 THEN 3
        ELSE IF i < 28 THEN i - 15
        ELSE IF i < 32 THEN 0
        ELSE IF i = 32 THEN 5
        ELSE IF i = 33 THEN 3
        ELSE IF i = 34 THEN 5
        ELSE 1]

\* frame d with half byte i replaced by v
Set1(d, i, v) == [d EXCEPT ![i] = v]

\* frame d with half bytes 28..30 replaced by a, b, c
SetFlip(d, a, b, c) == [d EXCEPT ![28] = a, ![29] = b, ![30] = c]

\* the 20-byte payload whose half bytes are d (bytes 18 and 19 are zero)
Pack(d) ==
    [k \in 0 .. (PayloadLen - 1) |->
        IF 2 * k + 1 < FrameLen THEN 16 * d[2 * k] + d[2 * k + 1] ELSE 0]

\* the payload the cube sends for plain payload p under key offsets o1, o2
Encrypted(p, o1, o2) ==
    [k \in 0 .. (PayloadLen - 1) |->
        IF k = 18 THEN EncryptedMark
        ELSE IF k = 19 THEN 16 * o1 + o2
        ELSE U8(p[k] + 512 - Key(o1 + k) - Key(o2 + k))]

\* the rest of the cube around a perturbed slot: solved, or edges UB and UL
\* exchanged
Contexts == {SolvedData, Set1(Set1(SolvedData, 16, 2), 17, 1)}
FlipTriples == {<<0, 0, 0>>, <<8, 9, 8>>, <<2, 6, 2>>, <<10, 15, 10>>}
FlipBytes == {0, 2, 6, 8, 9, 10, 15}
KeyOffsets == {0, 7, 15}

\* one corner slot holds any corner, with any orientation byte 1..4
CornerFrames ==
    {Set1(Set1(ctx, s, b), s + 8, o) :
        ctx \in Contexts, s \in CornerSlots, b \in 1 .. 8, o \in 1 .. 4}

\* one corner slot holds a byte that names no corner
BadCornerFrames ==
    {Set1(Set1(SolvedData, s, b), s + 8, o) :
        s \in CornerSlots, b \in {0, 9, 15}, o \in 1 .. 3}

\* one edge slot holds any half byte, under each known flip triple
EdgeFrames ==
    {Set1(SetFlip(SolvedData, t[1], t[2], t[3]), s + 16, b) :
        t \in FlipTriples, s \in EdgeSlots, b \in 0 .. 13}

\* any flip triple over the half bytes the constructor compares with
FlipFrames ==
    {SetFlip(SolvedData, a, b, c) : a \in FlipBytes, b \in FlipBytes, c \in FlipBytes}

\* any face and direction half bytes of the current and of the last move
MoveFrames ==
    {Set1(Set1(SolvedData, 32, f), 33, d) : f \in 0 .. 15, d \in 0 .. 15}
    \cup {Set1(Set1(SolvedData, 34, f), 35, d) : f \in 0 .. 15, d \in 0 .. 15}

Frames == CornerFrames \cup BadCornerFrames \cup EdgeFrames \cup FlipFrames \cup MoveFrames

Payloads ==
    {Pack(d) : d \in Frames}
    \cup {Encrypted(Pack(SolvedData), o1, o2) : o1 \in KeyOffsets, o2 \in KeyOffsets}

\* the cubes newCube is compared with: the default-constructed one and the
\* cubes of a few frames (solved; corner slot 6 displaced; corner slot 7
\* twisted; edge slot 11 displaced; back, front flips; another move; UB and
\* UL exchanged; a corner byte naming no corner)
OtherFrames ==
    {SolvedData,
     Set1(SolvedData, 6, 8),
     Set1(SolvedData, 15, 2),
     Set1(SolvedData, 27, 11),
     SetFlip(SolvedData, 8, 9, 8),
     SetFlip(SolvedData, 2, 6, 2),
     Set1(Set1(SolvedData, 32, 1), 33, 1),
     Set1(SolvedData, 0, 0)} \cup Contexts
Others == {CubeModel} \cup {CubeModelData(d) : d \in OtherFrames}

(* ---------------- state -------------------------------------------------- *)
VARIABLES
    queue,      \* notifications in flight: payloads not yet delivered
    colorData,  \* colorData[36] of the last callback
    newCube,    \* <<>> or <<the CubeModel the last callback constructed>>
    serialOut,  \* <<>> or the line the last callback printed
    ret,        \* the last query made on newCube and what it returned
    produced    \* history: the frame and the cube of every callback so far

vars == <<queue, colorData, newCube, serialOut, ret, produced>>

NoRet == [op |-> "none", args |-> <<>>, val |-> 0]

Init ==
    /\ queue \in {<<p>> : p \in Payloads}
    /\ colorData = [i \in 0 .. (FrameLen - 1) |-> 0]
    /\ newCube = <<>>
    /\ serialOut = <<>>
    /\ ret = NoRet
    /\ produced = <<>>

\* mutant: newCube kept between callbacks (static) and its edge orientations
\* not set back to ORIENTED before the flip patterns are applied
onDataNotifyCallback_StaticCube ==
    /\ queue # <<>>
    /\ LET data == ColorData(Head(queue))
           fresh == CubeModelData(data)
           cube == IF newCube = <<>> THEN fresh
                   ELSE [fresh EXCEPT !.edges =
                           [i \in EdgeSlots |->
                              [index |-> fresh.edges[i].index,
                               orientation |->
                                  IF newCube[1].edges[i].orientation = FLIPPED
                                  THEN FLIPPED ELSE fresh.edges[i].orientation]]]
       IN /\ colorData' = data
          /\ newCube' = <<cube>>
          /\ serialOut' = <<cube.turnedFace, cube.turnedDir>>
          /\ produced' = Append(produced, [data |-> data, cube |-> cube])
    /\ queue' = Tail(queue)
    /\ ret' = NoRet

\* static void onDataNotifyCallback(...), DEBUG_SERIAL_OUTPUT false
onDataNotifyCallback ==
    /\ queue # <<>>
    /\ LET data == ColorData(Head(queue))
           cube == CubeModelData(data)
       IN /\ colorData' = data
          /\ newCube' = <<cube>>
          /\ serialOut' = <<cube.turnedFace, cube.turnedDir>>
          /\ produced' = Append(produced, [data |-> data, cube |-> cube])
    /\ queue' = Tail(queue)
    /\ ret' = NoRet

\* the contents an uninitialised array of n COLORs may have when it is read
\* (read = FALSE: it is fully written before it is read, one content stands
\* for all)
JunkArrays(n, read) ==
    IF read THEN [0 .. (n - 1) -> JunkBytes] ELSE {[k \in 0 .. (n - 1) |-> 0]}

\* does getColor(face, row, col) return a byte no statement has written?
CellDirty(cube, face, row, col) ==
    IF row = 1 /\ col = 1 THEN face \notin Faces
    ELSE IF face \notin Faces THEN FALSE
    ELSE LET ref == CellRef(face, row, col)
         IN IF ref.kind = "corner"
            THEN cube.corners[ref.slot].index \notin CornerSlots
            ELSE cube.edges[ref.slot].index \notin EdgeSlots

\* the junk getFaceColors(face) may meet: one array per cell, free where the
\* cell is dirty
JunkGrids(cube, face) ==
    LET dirty == {cell \in Cells : CellDirty(cube, face, cell[1], cell[2])}
    IN {[cell \in Cells |-> [k \in 0 .. 2 |-> IF cell \in dirty THEN g[cell] ELSE 0]] :
           g \in [dirty -> JunkBytes]}

\* The queries are const methods: what one returns does not depend on the
\* queries made before it, so one query is explored per constructed object.
CanQuery == Len(newCube) = 1 /\ ret = NoRet

\* newCube.isSolved()
IsSolved ==
    /\ CanQuery
    /\ ret' = [op |-> "isSolved", args |-> <<>>, val |-> isSolved(newCube[1])]
    /\ UNCHANGED <<queue, colorData, newCube, serialOut, produced>>

\* newCube.getEdgeColors(edge)
GetEdgeColors ==
    /\ CanQuery
    /\ \E edge \in EdgeSlots :
         \E junk \in JunkArrays(2, newCube[1].edges[edge].index \notin EdgeSlots) :
            ret' = [op |-> "getEdgeColors", args |-> <<edge>>,
                    val |-> getEdgeColors(newCube[1], edge, junk)]
    /\ UNCHANGED <<queue, colorData, newCube, serialOut, produced>>

\* newCube.getCornerColors(corner)
GetCornerColors ==
    /\ CanQuery
    /\ \E corner \in CornerSlots :
         \E junk \in JunkArrays(3, newCube[1].corners[corner].index \notin CornerSlots) :
            ret' = [op |-> "getCornerColors", args |-> <<corner>>,
                    val |-> getCornerColors(newCube[1], corner, junk)]
    /\ UNCHANGED <<queue, colorData, newCube, serialOut, produced>>

\* newCube.getColor(face, row, col)
GetColor ==
    /\ CanQuery
    /\ \E face \in Faces \cup {NONE}, row \in Rows, col \in Cols :
         \E b \in (IF CellDirty(newCube[1], face, row, col) THEN JunkBytes ELSE {0}) :
            ret' = [op |-> "getColor", args |-> <<face, row, col>>,
                    val |-> getColor(newCube[1], face, row, col, [k \in 0 .. 2 |-> b])]
    /\ UNCHANGED <<queue, colorData, newCube, serialOut, produced>>

\* newCube.getFaceColors(face)
GetFaceColors ==
    /\ CanQuery
    /\ \E face \in Faces :
         \E junk \in JunkGrids(newCube[1], face) :
            ret' = [op |-> "getFaceColors", args |-> <<face>>,
                    val |-> getFaceColors(newCube[1], face, junk)]
    /\ UNCHANGED <<queue, colorData, newCube, serialOut, produced>>

\* newCube == other, other == newCube
OperatorEq ==
    /\ CanQuery
    /\ \E other \in Others, swapped \in BOOLEAN :
         LET lhs == IF swapped THEN other ELSE newCube[1]
             rhs == IF swapped THEN newCube[1] ELSE other
         IN ret' = [op |-> "operator==", args |-> <<lhs, rhs>>,
                    val |-> CubeEquals(lhs, rhs)]
    /\ UNCHANGED <<queue, colorData, newCube, serialOut, produced>>

\* newCube != other, other != newCube
OperatorNe ==
    /\ CanQuery
    /\ \E other \in Others, swapped \in BOOLEAN :
         LET lhs == IF swapped THEN other ELSE newCube[1]
             rhs == IF swapped THEN newCube[1] ELSE other
         IN ret' = [op |-> "operator!=", args |-> <<lhs, rhs>>,
                    val |-> CubeNotEquals(lhs, rhs)]
    /\ UNCHANGED <<queue, colorData, newCube, serialOut, produced>>

Next ==
    \/ onDataNotifyCallback
    \/ IsSolved
    \/ GetEdgeColors
    \/ GetCornerColors
    \/ GetColor
    \/ GetFaceColors
    \/ OperatorEq
    \/ OperatorNe

Spec == Init /\ [][Next]_vars

\* the payloads of a stream: the solved frame plain and encrypted (the same
\* half bytes), a frame with all eight flips, a twisted corner and another
\* direction, and a frame with two edges exchanged and another face
StreamPayloads ==
    {Pack(SolvedData),
     Encrypted(Pack(SolvedData), 7, 15),
     Pack(Set1(Set1(SetFlip(SolvedData, 10, 15, 10), 33, 1), 8, 1)),
     Pack(Set1(Set1(Set1(SolvedData, 16, 2), 17, 1), 32, 2))}

\* up to MaxFrames notifications in flight, in any order, repeats included
InitStream ==
    /\ queue \in UNION {[1 .. n -> StreamPayloads] : n \in 1 .. MaxFrames}
    /\ colorData = [i \in 0 .. (FrameLen - 1) |-> 0]
    /\ newCube = <<>>
    /\ serialOut = <<>>
    /\ ret = NoRet
    /\ produced = <<>>

SpecStream == InitStream /\ [][Next]_vars

(* ---------------- reference tables of the header comment ---------------- *)
\* "Six colors: (G)reen, (R)ed, (B)lue, (O)range, (W)hite, (Y)ellow."
G == GREEN
R == RED
B == BLUE
O == ORANGE
W == WHITE
Y == YELLOW

\* CORNER COLOR ORIENTATION NOTES: row #P, columns 3, 2, 1; each cell holds
\* two triples read Z, Y, X
CornerNotes(P, o) ==
    LET row ==
          CASE P = 1 -> <<G,R,Y, G,Y,R, R,G,Y, Y,G,R, R,Y,G, Y,R,G>>
            [] P = 2 -> <<G,R,W, G,W,R, R,G,W, W,G,R, R,W,G, W,R,G>>
            [] P = 3 -> <<G,O,W, G,W,O, O,G,W, W,G,O, O,W,G, W,O,G>>
            [] P = 4 -> <<G,Y,O, G,O,Y, Y,G,O, O,G,Y, Y,O,G, O,Y,G>>
            [] P = 5 -> <<B,R,Y, B,Y,R, R,B,Y, Y,B,R, R,Y,B, Y,R,B>>
            [] P = 6 -> <<B,R,W, B,W,R, R,B,W, W,B,R, R,W,B, W,R,B>>
            [] P = 7 -> <<B,O,W, B,W,O, O,B,W, W,B,O, O,W,B, W,O,B>>
            [] P = 8 -> <<B,O,Y, B,Y,O, O,B,Y, Y,B,O, O,Y,B, Y,O,B>>
        at == 6 * (3 - o)
    IN <<[k \in 0 .. 2 |-> row[at + k + 1]], [k \in 0 .. 2 |-> row[at + k + 4]]>>

\* "Original edge color with indexes": the two colours of edge 1..12
OriginalEdgeColors ==
    <<{G,Y}, {G,R}, {G,W}, {G,O}, {R,Y}, {R,W}, {O,W}, {O,Y}, {B,Y}, {B,R}, {B,W}, {B,O}>>

\* "green on top and white on front, with red left and orange right, blue on
\* bottom": the axis each colour lies on; edges list theirs in the order
\* Z-AXIS, X-AXIS, Y-AXIS
AxisRank(c) == IF c \in {G, B} THEN 0 ELSE IF c \in {W, Y} THEN 1 ELSE 2

\* the faces the slots lie on, from their names (ULB = Up, Left, Back)
CornerFaces ==
    <<{UP, LEFT, BACK}, {UP, LEFT, FRONT}, {UP, RIGHT, FRONT}, {UP, RIGHT, BACK},
      {DOWN, LEFT, BACK}, {DOWN, LEFT, FRONT}, {DOWN, RIGHT, FRONT}, {DOWN, RIGHT, BACK}>>

EdgeFaces ==
    <<{UP, BACK}, {UP, LEFT}, {UP, FRONT}, {UP, RIGHT},
      {BACK, LEFT}, {FRONT, LEFT}, {FRONT, RIGHT}, {BACK, RIGHT},
      {DOWN, BACK}, {DOWN, LEFT}, {DOWN, FRONT}, {DOWN, RIGHT}>>

\* "Face index: 1 - Blue, 2 - Yellow, 3 - Orange, 4 - White, 5 - Red, 6 - Green"
FaceIndexColor == <<B, Y, O, W, R, G>>

(* ---------------- properties --------------------------------------------- *)
Decoded == Len(newCube) = 1
Asked(op) == Decoded /\ ret.op = op

\* the centre colour the protocol fixes for each face
CentreOf(face) ==
    CASE face = UP -> GREEN
      [] face = LEFT -> RED
      [] face = FRONT -> WHITE
      [] face = RIGHT -> ORANGE
      [] face = BACK -> YELLOW
      [] face = DOWN -> BLUE

\* C1: the cube decoded from the canonical solved frame answers isSolved()
\* with true, and getFaceColors(face) with nine cells of that face's centre
\* colour, for each of the six faces.
C1_SolvedFrame ==
    (Decoded /\ colorData = SolvedData) =>
        /\ (ret.op = "isSolved" => ret.val = TRUE)
        /\ (ret.op = "getFaceColors" =>
               \A cell \in Cells : ret.val[cell] = CentreOf(ret.args[1]))

C1_Witness ==
    /\ Asked("getFaceColors")
    /\ colorData = SolvedData
    /\ ret.args = <<RIGHT>>
    /\ ret.val[<<0, 2>>] = ORANGE

\* C2: getCornerColors(S) on a slot holding corner P (1..8) with orientation
\* o (3, 2, 1) returns the first triple of cell (P, o) of the corner
\* orientation notes when index + position is even, the second when odd.
C2_CornerNotes ==
    Asked("getCornerColors") =>
        LET S == ret.args[1]
            cubie == newCube[1].corners[S]
        IN (cubie.index \in CornerSlots /\ cubie.orientation \in {3, 2, 1}) =>
              ret.val = CornerNotes(cubie.index + 1, cubie.orientation)
                           [IF (cubie.index + S) % 2 = 0 THEN 1 ELSE 2]

\* the 48 non-centre cells of the six faces and the 48 stickers
OuterCells ==
    {<<f, r, c>> : f \in Faces, r \in Rows, c \in Cols} \ {<<f, 1, 1>> : f \in Faces}
Stickers ==
    {CornerCell(s, k) : s \in CornerSlots, k \in 0 .. 2}
    \cup {EdgeCell(s, k) : s \in EdgeSlots, k \in 0 .. 1}
RefOf(cell) == CellRef(cell[1], cell[2], cell[3])
OnFace(ref, face) ==
    IF ref.kind = "corner" THEN face \in CornerFaces[ref.slot + 1]
    ELSE face \in EdgeFaces[ref.slot + 1]

\* C3: the non-centre cells of getColor map one-to-one onto the stickers:
\* each cell reads a slot on its face, no two cells read the same sticker,
\* and every sticker is read by some cell.
C3_CellsOneToOne ==
    Asked("getColor") =>
        /\ \A cell \in OuterCells : OnFace(RefOf(cell), cell[1])
        /\ \A c1, c2 \in OuterCells : RefOf(c1) = RefOf(c2) => c1 = c2
        /\ \A st \in Stickers : \E cell \in OuterCells : RefOf(cell) = st

\* every edge slot and every corner slot below n holds its own piece, ORIENTED
HomeUpTo(cube, n) ==
    /\ \A i \in EdgeSlots :
          cube.edges[i].index = i /\ cube.edges[i].orientation = ORIENTED
    /\ \A i \in 0 .. (n - 1) :
          cube.corners[i].index = i /\ cube.corners[i].orientation = ORIENTED

\* C4: isSolved() is true exactly when the 12 edge slots and corner slots
\* 0..5 hold their own index with orientation ORIENTED.
C4_IsSolvedIff ==
    Asked("isSolved") => (ret.val <=> HomeUpTo(newCube[1], 6))

C4_Witness ==
    /\ Asked("isSolved")
    /\ ret.val = FALSE
    /\ newCube[1].corners[DLF] = [index |-> DLF, orientation |-> ROTATED]
    /\ \A i \in CornerSlots \ {DLF} : newCube[1].corners[i].index = i

\* C5: isSolved() is true only for the canonical solved configuration: all 8
\* corner slots and all 12 edge slots hold their own index, ORIENTED, i.e.
\* the state equals the default-constructed one.
C5_SolvedOnlyCanonical ==
    (Asked("isSolved") /\ ret.val = TRUE) =>
        /\ HomeUpTo(newCube[1], 8)
        /\ CubeEquals(newCube[1], CubeModel)

\* the colours of edge `index` in the order of the header comment: the
\* colour on the Z axis first, then the X axis, then the Y axis
EdgeNotes(index) ==
    LET pair == OriginalEdgeColors[index + 1]
        first == CHOOSE c \in pair : \A d \in pair : AxisRank(c) <= AxisRank(d)
        second == CHOOSE c \in pair : c # first
    IN [k \in 0 .. 1 |-> IF k = 0 THEN first ELSE second]

FlippedSlots(cube) == {i \in EdgeSlots : cube.edges[i].orientation = FLIPPED}
Triple(data) == <<data[28], data[29], data[30]>>
KnownTriples == {<<8, 9, 8>>, <<2, 6, 2>>, <<10, 15, 10>>}
BackFour == {UB, BL, _BR, DB}
FrontFour == {UF, FL, FR, DF}

\* C7: decoding flips exactly the back four edges under (8,9,8), exactly the
\* front four under (2,6,2), exactly those eight under (A,F,A); the flipped
\* set is always empty, the back four, the front four or all eight, and no
\* edge slot holds another orientation than ORIENTED or FLIPPED.
C7_FlipPatterns ==
    Decoded =>
        LET F == FlippedSlots(newCube[1])
            t == Triple(colorData)
        IN /\ t = <<8, 9, 8>> => F = BackFour
           /\ t = <<2, 6, 2>> => F = FrontFour
           /\ t = <<10, 15, 10>> => F = BackFour \cup FrontFour
           /\ F \in {{}, BackFour, FrontFour, BackFour \cup FrontFour}
           /\ \A i \in EdgeSlots \ F : newCube[1].edges[i].orientation = ORIENTED

C7_Witness ==
    /\ Decoded
    /\ Triple(colorData) = <<10, 15, 10>>
    /\ FlippedSlots(newCube[1]) = BackFour \cup FrontFour

C9_IndicesInRange ==
    Decoded =>
        /\ \A i \in CornerSlots : newCube[1].corners[i].index \in CornerSlots
        /\ \A i \in EdgeSlots : newCube[1].edges[i].index \in EdgeSlots
        /\ (ret.op = "getCornerColors" => \A k \in 0 .. 2 : ret.val[k] \in Colors)
        /\ (ret.op = "getEdgeColors" => \A k \in 0 .. 1 : ret.val[k] \in Colors)

\* the face whose fixed centre colour is c
FaceOfColor(c) == CHOOSE f \in Faces : SolvedCenters[f] = c

\* C10: turnedFace and lastTurnedFace are the faces whose centre colour is
\* the colour of the face index in frame[32] and frame[34]: 1 DOWN, 2 BACK,
\* 3 RIGHT, 4 FRONT, 5 LEFT, 6 UP.
C10_TurnedFace ==
    Decoded =>
        /\ colorData[32] \in 1 .. 6 =>
              newCube[1].turnedFace = FaceOfColor(FaceIndexColor[colorData[32]])
        /\ colorData[34] \in 1 .. 6 =>
              newCube[1].lastTurnedFace = FaceOfColor(FaceIndexColor[colorData[34]])

SameSlots(a, b) ==
    /\ \A i \in EdgeSlots : a.edges[i] = b.edges[i]
    /\ \A i \in CornerSlots : a.corners[i] = b.corners[i]
    /\ \A f \in Faces : a.centers[f] = b.centers[f]

\* C12: operator== is true exactly when the two states hold the same index
\* and orientation in each of the 12 edge and 8 corner slots and the same 6
\* centres (the move metadata takes no part); it is reflexive, symmetric and
\* transitive, and operator!= is its negation.
C12_EqualityIff ==
    /\ Asked("operator==") =>
          LET a == ret.args[1]
              b == ret.args[2]
          IN /\ ret.val <=> SameSlots(a, b)
             /\ CubeEquals(a, a) /\ CubeEquals(b, b)
             /\ ret.val = CubeEquals(b, a)
             /\ \A c \in Others : (ret.val /\ CubeEquals(b, c)) => CubeEquals(a, c)
    /\ Asked("operator==") =>
          \A d \in OtherFrames :
             ( /\ {ret.args[1], ret.args[2]} = {newCube[1], CubeModelData(d)}
               /\ \E i \in 0 .. 27 : d[i] # colorData[i] ) => ret.val = FALSE
    /\ Asked("operator!=") => (ret.val <=> ~SameSlots(ret.args[1], ret.args[2]))

C12_Witness ==
    /\ Asked("operator==")
    /\ ret.val = FALSE
    /\ ret.args[1].corners[DRB] # ret.args[2].corners[DRB]
    /\ ret.args[1].edges = ret.args[2].edges
    /\ \A i \in CornerSlots \ {DRB} : ret.args[1].corners[i] = ret.args[2].corners[i]

\* the move metadata of a cube
Metadata(cube) ==
    <<cube.turnedFace, cube.turnedDir, cube.lastTurnedFace, cube.lastTurnedDir>>

\* C13: the default-constructed state and the state decoded from the
\* canonical solved frame are equal under operator==, in both argument
\* orders, although their move metadata differs.
C13_DefaultEqualsSolved ==
    (Asked("operator==") /\ colorData = SolvedData /\ CubeModel \in {ret.args[1], ret.args[2]}) =>
        /\ ret.val = TRUE
        /\ Metadata(newCube[1]) # Metadata(CubeModel)

C13_Witness ==
    /\ Asked("operator==")
    /\ colorData = SolvedData
    /\ ret.args = <<CubeModel, newCube[1]>>
    /\ ret.val = TRUE
    /\ newCube[1].turnedFace = 5 /\ CubeModel.turnedFace = NONE

\* C14: in any stream of frames, the cube and the move metadata produced for
\* a frame depend on that frame's 36 half bytes alone: two callbacks given
\* the same half bytes produce equal cubes with equal metadata whatever was
\* decoded in between, the cube at hand is the one produced for the last
\* frame, and a callback changes nothing produced before it.
C14_FrameAlone ==
    /\ [](\A i, j \in 1 .. Len(produced) :
             produced[i].data = produced[j].data =>
                /\ CubeEquals(produced[i].cube, produced[j].cube)
                /\ Metadata(produced[i].cube) = Metadata(produced[j].cube)
                /\ produced[i].cube = produced[j].cube)
    /\ [](Decoded =>
             /\ produced[Len(produced)].cube = newCube[1]
             /\ produced[Len(produced)].data = colorData)
    /\ [][/\ Len(produced') >= Len(produced)
          /\ \A i \in 1 .. Len(produced) : produced'[i] = produced[i]]_vars

C14_Witness ==
    /\ Len(produced) = 3
    /\ produced[1].data = SolvedData
    /\ produced[3].data = SolvedData
    /\ FlippedSlots(produced[2].cube) = BackFour \cup FrontFour
    /\ produced[3].cube = produced[1].cube
    /\ FlippedSlots(newCube[1]) = {}

\* the frame in flight with the edge slots of another frame: its cube holds
\* the same corner slots, other edge slots
WithEdgesOf(d) == [i \in 0 .. (FrameLen - 1) |-> IF i \in 16 .. 27 THEN d[i] ELSE colorData[i]]

\* C15: getCornerColors(S) depends only on corner slot S: a cube holding the
\* same index and orientation in slot S returns the same three colours,
\* whatever its edge slots hold.
C15_SlotAlone ==
    (Asked("getCornerColors") /\ newCube[1].corners[ret.args[1]].index \in CornerSlots) =>
        \A d \in Contexts :
            LET peer == CubeModelData(WithEdgesOf(d))
                S == ret.args[1]
            IN peer.corners[S] = newCube[1].corners[S] =>
                  getCornerColors(peer, S, [k \in 0 .. 2 |-> 0]) = ret.val
====
